---- MODULE Spec2Model ----
(***************************************************************************)
(* A model of flowd's unprivileged worker (src/flowd.c): the signal        *)
(* handlers and their flags, the peer registry (splay tree + LRU deque),   *)
(* the NetFlow v1/v5/v7 decoders, process_flow, start_log and the main     *)
(* loop of flowd_mainloop.                                                 *)
(*                                                                         *)
(* The main loop is cut at every point where a signal handler can run      *)
(* between two reads or writes of a flag; a handler is one atomic step.    *)
(* process_input is one step: nothing it reads is written by a handler.    *)
(*                                                                         *)
(* The environment: exporters send datagrams, signals arrive at any point, *)
(* poll and client_reconfigure may fail.  The log device is healthy: a     *)
(* write fails only through a closed descriptor, client_open_log always    *)
(* passes a descriptor, and no other process changes the log file.         *)
(***************************************************************************)
EXTENDS Integers, Sequences, FiniteSets, TLC

(***************************************************************************)
(* Bounds of the model.                                                    *)
(***************************************************************************)
\* Environment events (signals delivered + datagrams received) in one run.
MaxEvents == 3
\* Distinct exporter addresses.
NumAddrs == 3
\* peers.max_peers; main() sets it from DEFAULT_MAX_PEERS (flowd.h).
DEFAULT_MAX_PEERS == 2

(***************************************************************************)
(* Program constants.                                                      *)
(***************************************************************************)
AF_INET == 2
AF_INET6 == 10
SIGINT == 2
SIGTERM == 15
LOG_WARNING == 4
LOG_INFO == 6
NULL == 0

\* netflow.h: packet geometry (sizeof header, sizeof flow record, max flows).
NF_HEADER_COMMON_SIZE == 4
NF1_HEADER_SIZE == 16
NF1_FLOW_SIZE == 48
NF1_MAXFLOWS == 24
NF5_HEADER_SIZE == 24
NF5_FLOW_SIZE == 48
NF5_MAXFLOWS == 30
NF7_HEADER_SIZE == 24
NF7_FLOW_SIZE == 52
NF7_MAXFLOWS == 28

NF1_PACKET_SIZE(n) == NF1_HEADER_SIZE + n * NF1_FLOW_SIZE
NF5_PACKET_SIZE(n) == NF5_HEADER_SIZE + n * NF5_FLOW_SIZE
NF7_PACKET_SIZE(n) == NF7_HEADER_SIZE + n * NF7_FLOW_SIZE

\* IP protocol numbers carried in a flow record (pft.protocol).
IPPROTO_TCP == 6
IPPROTO_UDP == 17

(***************************************************************************)
(* Exporter addresses (struct xaddr): family and host bytes.  Every third  *)
(* address is an IPv6 one.                                                 *)
(***************************************************************************)
Xaddr(k) == [af |-> IF k % 3 = 0 THEN AF_INET6 ELSE AF_INET, host |-> k]
Addrs == {Xaddr(k) : k \in 1..NumAddrs}

\* addr_cmp: family first, then the bytes; <0, 0, >0.
addr_cmp(a, b) ==
    IF a.af # b.af THEN (IF a.af < b.af THEN -1 ELSE 1)
    ELSE IF a.host < b.host THEN -1
    ELSE IF a.host > b.host THEN 1 ELSE 0

peer_compare(a, b) == addr_cmp(a.from, b.from)

RECURSIVE SeqRemove(_, _)
\* TAILQ_REMOVE: the list without the (first occurrence of the) element.
SeqRemove(s, x) ==
    IF s = <<>> THEN <<>>
    ELSE IF Head(s) = x THEN Tail(s)
    ELSE <<Head(s)>> \o SeqRemove(Tail(s), x)

SeqRange(s) == {s[k] : k \in 1..Len(s)}

(***************************************************************************)
(* The state one handler threads through its calls:                        *)
(*   peers   struct peers (tree, list, counters) and the heap of           *)
(*           struct peer_state nodes, keyed by node id                     *)
(*   logfile the bytes of the log file, as a sequence of items             *)
(*   trace   the calls and log lines of the handler, in program order      *)
(*   now     the clock gettimeofday reads                                  *)
(*   exited  TRUE once logerrx()/logerr() has ended the process            *)
(***************************************************************************)
Ev(op, arg) == [op |-> op, arg |-> arg]
Emit(S, op, arg) == [S EXCEPT !.trace = Append(@, Ev(op, arg))]
logit(S, level) == Emit(S, "logit", level)
logerrx(S) == [Emit(S, "logerrx", 1) EXCEPT !.exited = TRUE]

\* gettimeofday: the clock moves on with every reading.
gettimeofday(S) == [S EXCEPT !.now = @ + 1]

(***************************************************************************)
(* Peer registry.  A node is a heap cell (its id stands for the pointer);  *)
(* the splay tree is the set of nodes linked into it, the deque the        *)
(* sequence of nodes from head to tail.                                    *)
(***************************************************************************)
TAILQ_FIRST(list) == IF list = <<>> THEN NULL ELSE list[1]
\* The deque read from the wrong end.
TAILQ_LAST_M(list) == IF list = <<>> THEN NULL ELSE list[1]
TAILQ_LAST(list) == IF list = <<>> THEN NULL ELSE list[Len(list)]
TAILQ_INSERT_HEAD(list, node) == <<node>> \o list

\* SPLAY_INSERT links the node unless a node with an equal key is in the tree.
SPLAY_INSERT(tree, heap, node) ==
    IF \E n \in tree : peer_compare(heap[n], heap[node]) = 0
    THEN tree ELSE tree \cup {node}

\* SPLAY_FIND: the node whose key compares equal, or NULL.
SPLAY_FIND(tree, heap, addr) ==
    IF \E n \in tree : addr_cmp(heap[n].from, addr) = 0
    THEN CHOOSE n \in tree : addr_cmp(heap[n].from, addr) = 0
    ELSE NULL

\* calloc: a free cell, zeroed.
calloc(heap) ==
    CHOOSE n \in 1..(Cardinality(DOMAIN heap) + 1) :
        /\ n \notin DOMAIN heap
        /\ \A m \in 1..(n - 1) : m \in DOMAIN heap

ZeroPeer ==
    [from |-> [af |-> 0, host |-> 0], npackets |-> 0, nflows |-> 0,
     ninvalid |-> 0, firstseen |-> 0, lastvalid |-> 0, last_version |-> 0]

\* delete_peer that leaves the node in the tree.
delete_peer_M(S, peer) ==
    [S EXCEPT !.peers =
        [@ EXCEPT !.peer_list = SeqRemove(@, peer),
                  !.num_peers = @ - 1]]

delete_peer(S, peer) ==
    [S EXCEPT !.peers =
        [@ EXCEPT !.peer_list = SeqRemove(@, peer),
                  !.peer_tree = @ \ {peer},
                  !.heap = [n \in (DOMAIN @) \ {peer} |-> @[n]],
                  !.num_peers = @ - 1]]

\* new_peer without the eviction branch.
new_peer_evict_M(S) == S

\* An eviction branch that does not count the forced deletion.
new_peer_evict_uncounted(S) ==
    LET victim == TAILQ_LAST(S.peers.peer_list)
        S2 == Emit(S, "TAILQ_LAST", victim)
    IN  IF victim = NULL
        THEN [Emit(S2, "SIGSEGV", 0) EXCEPT !.exited = TRUE]
        ELSE delete_peer(logit(S2, LOG_WARNING), victim)

\* The eviction branch of new_peer; TAILQ_LAST of an empty list is NULL and
\* the read of peer->from through it ends the process.
new_peer_evict(S) ==
    LET S1 == [S EXCEPT !.peers.num_forced = @ + 1]
        victim == TAILQ_LAST(S1.peers.peer_list)
        S2 == Emit(S1, "TAILQ_LAST", victim)
    IN  IF victim = NULL
        THEN [Emit(S2, "SIGSEGV", 0) EXCEPT !.exited = TRUE]
        ELSE delete_peer(logit(S2, LOG_WARNING), victim)

\* new_peer returns the state and the new node.
new_peer(S, addr) ==
    LET S1 == [S EXCEPT !.peers.num_peers = @ + 1]
        S2 == IF S1.peers.num_peers > S1.peers.max_peers
              THEN new_peer_evict(S1) ELSE S1
        peer == calloc(S2.peers.heap)
        heap1 == [n \in (DOMAIN S2.peers.heap) \cup {peer} |->
                    IF n = peer THEN [ZeroPeer EXCEPT !.from = addr]
                    ELSE S2.peers.heap[n]]
        S3 == gettimeofday(S2)
        S4 == [S3 EXCEPT !.peers =
                [@ EXCEPT !.peer_list = TAILQ_INSERT_HEAD(@, peer),
                          !.peer_tree = SPLAY_INSERT(@, heap1, peer),
                          !.heap = [heap1 EXCEPT ![peer].firstseen = S3.now]]]
    IN  IF S2.exited THEN [st |-> S2, peer |-> NULL]
        ELSE [st |-> Emit(S4, "new_peer", peer), peer |-> peer]

\* update_peer that leaves the LRU list as it is.
update_peer_M(S, peer, nflows, netflow_version) ==
    LET S1 == gettimeofday(S)
    IN  Emit([S1 EXCEPT !.peers.heap[peer].lastvalid = S1.now,
                        !.peers.heap[peer].nflows = @ + nflows,
                        !.peers.heap[peer].npackets = @ + 1,
                        !.peers.heap[peer].last_version = netflow_version],
             "update_peer", nflows)

update_peer(S, peer, nflows, netflow_version) ==
    LET list == S.peers.peer_list
        list1 == IF peer # TAILQ_FIRST(list)
                 THEN TAILQ_INSERT_HEAD(SeqRemove(list, peer), peer)
                 ELSE list
        S1 == gettimeofday(S)
    IN  Emit([S1 EXCEPT !.peers.peer_list = list1,
                        !.peers.heap[peer].lastvalid = S1.now,
                        !.peers.heap[peer].nflows = @ + nflows,
                        !.peers.heap[peer].npackets = @ + 1,
                        !.peers.heap[peer].last_version = netflow_version],
             "update_peer", nflows)

find_peer(S, addr) == SPLAY_FIND(S.peers.peer_tree, S.peers.heap, addr)

(***************************************************************************)
(* Flow pipeline.  A datagram is [from, len, version, flows, pat]: the     *)
(* sender, the length recvfrom returned, the two fields of the common      *)
(* header, and the pattern of its records' protocols.  The flow built      *)
(* from record i keeps the record's offset in the packet.                  *)
(***************************************************************************)
\* pft.protocol of record i of the packet.
RecProto(pkt, i) ==
    IF pkt.pat = "mix" /\ i % 2 = 1 THEN IPPROTO_UDP ELSE IPPROTO_TCP

\* filter.c, after the spec: a total function of the flow and the rule list
\* (here: the protocols the rules discard); the rule list is not changed.
filter_flow(flow, filter_list) ==
    IF flow.protocol \in filter_list THEN "FF_ACTION_DISCARD" ELSE "FF_ACTION_ACCEPT"

\* store.c, after the spec: one record appended through the descriptor;
\* a write through a closed descriptor fails.
store_put_flow(S, log_fd, flow) ==
    IF log_fd = -1 THEN [st |-> S, rc |-> -1]
    ELSE [st |-> Emit([S EXCEPT !.logfile = Append(@, flow)],
                      "store_put_flow", flow.offset),
          rc |-> 0]

\* process_flow without the address-family check.
process_flow_M(S, flow, conf, log_fd) ==
    LET S1 == Emit(Emit(S, "process_flow", flow.offset), "filter_flow", flow.offset)
    IN  IF filter_flow(flow, conf.filter_list) = "FF_ACTION_DISCARD"
        THEN S1
        ELSE LET r == store_put_flow(S1, log_fd, flow)
             IN  IF r.rc # 0 THEN logerrx(r.st) ELSE r.st

process_flow(S, flow, conf, log_fd) ==
    LET S0 == Emit(S, "process_flow", flow.offset)
    IN  IF flow.src_af # flow.dst_af THEN logit(S0, LOG_WARNING)
        ELSE LET S1 == Emit(S0, "filter_flow", flow.offset)
             IN  IF filter_flow(flow, conf.filter_list) = "FF_ACTION_DISCARD"
                 THEN S1
                 ELSE LET r == store_put_flow(S1, log_fd, flow)
                      IN  IF r.rc # 0 THEN logerrx(r.st) ELSE r.st

\* The canonical flow record a decoder fills from the record at `offset`.
DecodeFlow(pkt, flow_source, offset, i) ==
    [agent_addr |-> flow_source, src_af |-> AF_INET, dst_af |-> AF_INET,
     protocol |-> RecProto(pkt, i), netflow_version |-> pkt.version,
     offset |-> offset]

RECURSIVE flow_loop(_, _, _, _, _, _, _, _, _)
\* A loop that stops after one record.
flow_loop_M(S, pkt, flow_source, conf, log_fd, hdrsz, recsz, i, nflows) ==
    IF i >= nflows \/ S.exited THEN S
    ELSE process_flow(S, DecodeFlow(pkt, flow_source, hdrsz + i * recsz, i),
                      conf, log_fd)

\* for (i = 0; i < nflows; i++) { offset = hdr + i * rec; ... process_flow }
flow_loop(S, pkt, flow_source, conf, log_fd, hdrsz, recsz, i, nflows) ==
    IF i >= nflows \/ S.exited THEN S
    ELSE flow_loop(
            process_flow(S, DecodeFlow(pkt, flow_source, hdrsz + i * recsz, i),
                         conf, log_fd),
            pkt, flow_source, conf, log_fd, hdrsz, recsz, i + 1, nflows)

\* A rejection that is logged but not counted.
ninvalid_inc_M(S, peer) == logit(S, LOG_WARNING)

ninvalid_inc(S, peer) ==
    logit([S EXCEPT !.peers.heap[peer].ninvalid = @ + 1], LOG_WARNING)

\* A decoder without the length-consistency check.
process_netflow_M(S, pkt, flow_source, conf, peer, log_fd, ver, hdrsz, recsz, maxflows) ==
    IF pkt.len < hdrsz THEN ninvalid_inc(S, peer)
    ELSE IF pkt.flows = 0 \/ pkt.flows > maxflows THEN ninvalid_inc(S, peer)
    ELSE flow_loop(update_peer(S, peer, pkt.flows, ver),
                   pkt, flow_source, conf, log_fd, hdrsz, recsz, 0, pkt.flows)

\* The body the three decoders share, with the version's geometry.
process_netflow(S, pkt, flow_source, conf, peer, log_fd, ver, hdrsz, recsz, maxflows) ==
    IF pkt.len < hdrsz THEN ninvalid_inc(S, peer)
    ELSE IF pkt.flows = 0 \/ pkt.flows > maxflows THEN ninvalid_inc(S, peer)
    ELSE IF pkt.len # hdrsz + pkt.flows * recsz THEN ninvalid_inc(S, peer)
    ELSE flow_loop(update_peer(S, peer, pkt.flows, ver),
                   pkt, flow_source, conf, log_fd, hdrsz, recsz, 0, pkt.flows)

process_netflow_v1(S, pkt, flow_source, conf, peer, log_fd) ==
    process_netflow(S, pkt, flow_source, conf, peer, log_fd,
                    1, NF1_HEADER_SIZE, NF1_FLOW_SIZE, NF1_MAXFLOWS)

process_netflow_v5(S, pkt, flow_source, conf, peer, log_fd) ==
    process_netflow(S, pkt, flow_source, conf, peer, log_fd,
                    5, NF5_HEADER_SIZE, NF5_FLOW_SIZE, NF5_MAXFLOWS)

process_netflow_v7(S, pkt, flow_source, conf, peer, log_fd) ==
    process_netflow(S, pkt, flow_source, conf, peer, log_fd,
                    7, NF7_HEADER_SIZE, NF7_FLOW_SIZE, NF7_MAXFLOWS)

\* A switch whose default case counts the datagram as invalid.
version_switch_M(S, pkt, flow_source, conf, peer, log_fd) ==
    CASE pkt.version = 1 -> process_netflow_v1(S, pkt, flow_source, conf, peer, log_fd)
      [] pkt.version = 5 -> process_netflow_v5(S, pkt, flow_source, conf, peer, log_fd)
      [] pkt.version = 7 -> process_netflow_v7(S, pkt, flow_source, conf, peer, log_fd)
      [] OTHER -> ninvalid_inc(S, peer)

\* switch (ntohs(hdr->version))
version_switch(S, pkt, flow_source, conf, peer, log_fd) ==
    CASE pkt.version = 1 -> process_netflow_v1(S, pkt, flow_source, conf, peer, log_fd)
      [] pkt.version = 5 -> process_netflow_v5(S, pkt, flow_source, conf, peer, log_fd)
      [] pkt.version = 7 -> process_netflow_v7(S, pkt, flow_source, conf, peer, log_fd)
      [] OTHER -> logit(S, LOG_INFO)

\* The peer of the datagram's sender: found, or made.
lookup_peer(S, flow_source) ==
    LET found == find_peer(S, flow_source)
    IN  IF found = NULL THEN new_peer(S, flow_source)
        ELSE [st |-> S, peer |-> found]

\* rx is what recvfrom and addr_sa_to_xaddr gave: a datagram, or a failure.
process_input(S, rx, conf, log_fd) ==
    IF rx.kind = "EAGAIN" THEN S
    ELSE IF rx.kind = "EIO" THEN logit(S, LOG_WARNING)
    ELSE IF rx.kind = "badaddr" THEN logit(S, LOG_WARNING)
    ELSE LET pkt == rx.pkt
             r == lookup_peer(S, pkt.from)
         IN  IF r.st.exited THEN r.st
             ELSE IF pkt.len < NF_HEADER_COMMON_SIZE
             THEN ninvalid_inc(r.st, r.peer)
             ELSE version_switch(r.st, pkt, pkt.from, conf, r.peer, log_fd)

(***************************************************************************)
(* The log file.  Its first item is the header store_put_header writes     *)
(* (or bytes that are no header); flow records follow.                     *)
(***************************************************************************)
StoreHeader == [magic |-> "flowd", offset |-> 0]
BadHeader == [magic |-> "other", offset |-> 0]

\* store_check_header: 0 when the file starts with the header.
store_check_header(file) ==
    IF file # <<>> /\ file[1] = StoreHeader THEN 0 ELSE -1

STDERR_FILENO == 2
\* privsep_init hands the worker its end of the control channel.
monitor_fd == STDERR_FILENO + 1

\* client_open_log: the helper passes a descriptor of the log file; the
\* worker receives it at its lowest free descriptor.
client_open_log(used) ==
    CHOOSE fd \in (monitor_fd + 1)..(monitor_fd + 1 + Cardinality(used)) :
        /\ fd \notin used
        /\ \A g \in (monitor_fd + 1)..(fd - 1) : g \in used

\* start_log that writes the header wherever the file ends.
start_log_M(S, used) ==
    LET fd == client_open_log(used)
        S0 == Emit(S, "client_open_log", fd)
    IN  [st |-> Emit([S0 EXCEPT !.logfile = Append(@, StoreHeader)],
                     "store_put_header", fd),
         fd |-> fd]

\* start_log that goes on whatever the verification says.
start_log_lenient(S, used) ==
    LET fd == client_open_log(used)
        S0 == Emit(S, "client_open_log", fd)
    IN  IF Len(S0.logfile) = 0
        THEN [st |-> Emit([S0 EXCEPT !.logfile = Append(@, StoreHeader)],
                          "store_put_header", fd),
              fd |-> fd]
        ELSE [st |-> Emit(S0, "store_check_header", fd), fd |-> fd]

\* start_log returns the state and the descriptor.
start_log(S, used) ==
    LET fd == client_open_log(used)
        S0 == Emit(S, "client_open_log", fd)
        pos == Len(S0.logfile)
    IN  IF fd = -1 THEN [st |-> logerrx(S0), fd |-> fd]
        ELSE IF pos = 0
        THEN [st |-> Emit([S0 EXCEPT !.logfile = Append(@, StoreHeader)],
                          "store_put_header", fd),
              fd |-> fd]
        ELSE LET S1 == Emit(S0, "store_check_header", fd)
             IN  IF store_check_header(S1.logfile) # 0
                 THEN [st |-> logerrx(S1), fd |-> fd]
                 ELSE [st |-> S1, fd |-> fd]

RECURSIVE SplayOrder(_, _)
\* SPLAY_FOREACH: the nodes of the tree in ascending key order.
SplayOrder(tree, heap) ==
    IF tree = {} THEN <<>>
    ELSE LET m == CHOOSE n \in tree :
                    \A o \in tree : peer_compare(heap[n], heap[o]) <= 0
         IN  <<m>> \o SplayOrder(tree \ {m}, heap)

RECURSIVE dump_loop(_, _)
\* A dump that skips the first peer.
dump_loop_M(S, nodes) ==
    IF nodes = <<>> THEN S ELSE dump_loop(S, Tail(nodes))

dump_loop(S, nodes) ==
    IF nodes = <<>> THEN S
    ELSE dump_loop(
            Emit(Emit(Emit(S, "peer_counts", Head(nodes)),
                      "peer_firstseen", Head(nodes)),
                 "peer_lastvalid", Head(nodes)),
            Tail(nodes))

dump_peers(S) ==
    dump_loop(Emit(S, "peer_state", S.peers.num_peers),
              SplayOrder(S.peers.peer_tree, S.peers.heap))

RECURSIVE format_rules(_, _)
\* TAILQ_FOREACH(fr, &conf->filter_list, entry) logit(LOG_INFO, format_rule(fr))
format_rules(S, n) ==
    IF n = 0 THEN S ELSE format_rules(Emit(S, "format_rule", n), n - 1)

\* init_pfd that fills the vector from the last listener to the first.
init_pfd_M(cf, mfd) ==
    LET n == 1 + Len(cf.listen_addrs)
    IN  [num_fds |-> n,
         pfd |-> [k \in 0..(n - 1) |->
                    [fd |-> IF k = 0 THEN mfd ELSE cf.listen_addrs[n - k],
                     revents |-> {}]]]

\* init_pfd: [control channel] followed by the listeners, in list order.
init_pfd(cf, mfd) ==
    LET n == 1 + Len(cf.listen_addrs)
    IN  [num_fds |-> n,
         pfd |-> [k \in 0..(n - 1) |->
                    [fd |-> IF k = 0 THEN mfd ELSE cf.listen_addrs[k],
                     revents |-> {}]]]

(***************************************************************************)
(* Inputs: the datagrams an exporter may send, the configurations the      *)
(* helper may hand out, the log files a run may start against.             *)
(***************************************************************************)
Pkt(from, len, version, flows) ==
    [from |-> from, len |-> len, version |-> version, flows |-> flows, pat |-> "mix"]

HdrSize(v) == CASE v = 1 -> NF1_HEADER_SIZE [] v = 5 -> NF5_HEADER_SIZE [] v = 7 -> NF7_HEADER_SIZE
MaxFlows(v) == CASE v = 1 -> NF1_MAXFLOWS [] v = 5 -> NF5_MAXFLOWS [] v = 7 -> NF7_MAXFLOWS
PacketSize(v, n) ==
    CASE v = 1 -> NF1_PACKET_SIZE(n) [] v = 5 -> NF5_PACKET_SIZE(n) [] v = 7 -> NF7_PACKET_SIZE(n)

\* Datagrams that fail a structural check, of every kind, for version v.
Malformed(a, v) ==
    { Pkt(a, NF_HEADER_COMMON_SIZE - 1, v, 1),
      Pkt(a, HdrSize(v) - 1, v, 1),
      Pkt(a, HdrSize(v), v, 0),
      Pkt(a, PacketSize(v, MaxFlows(v) + 1), v, MaxFlows(v) + 1),
      Pkt(a, PacketSize(v, 2) - 1, v, 2),
      Pkt(a, PacketSize(v, 2) + 1, v, 2) }

\* Exporter k speaks one NetFlow version; its well-formed datagram carries
\* the most flows that version allows.
FullVersion(k) == CASE k % 3 = 1 -> 1 [] k % 3 = 2 -> 5 [] OTHER -> 7

WellFormed(k) ==
    { Pkt(Xaddr(k), PacketSize(FullVersion(k), MaxFlows(FullVersion(k))),
          FullVersion(k), MaxFlows(FullVersion(k))) }

\* What exporter k sends: its well-formed datagram, malformed ones of every
\* kind of its version, and one of a version flowd does not decode.
Datagrams ==
    UNION { WellFormed(k) \cup Malformed(Xaddr(k), FullVersion(k))
            \cup { Pkt(Xaddr(k), NF_HEADER_COMMON_SIZE, 9, 1) } : k \in 1..NumAddrs }

Receptions ==
    { [kind |-> "dgram", pkt |-> d] : d \in Datagrams } \cup
    { [kind |-> "EAGAIN"], [kind |-> "EIO"], [kind |-> "badaddr"] }

Configs ==
    { [listen_addrs |-> <<4>>, filter_list |-> {IPPROTO_UDP}],
      [listen_addrs |-> <<5, 6>>, filter_list |-> {}] }

StartupConfig == [listen_addrs |-> <<4>>, filter_list |-> {IPPROTO_UDP}]

InitLogs == { <<>>, <<StoreHeader>>, <<BadHeader>> }

Signals == {"SIGINT", "SIGTERM", "SIGHUP", "SIGUSR1", "SIGUSR2"}

(***************************************************************************)
(* State.                                                                  *)
(***************************************************************************)
VARIABLES
    pc,           \* where flowd_mainloop stands
    exit_flag, reconf_flag, reopen_flag, info_flag,   \* sig_atomic_t flags
    peers,        \* struct peers and the peer_state nodes
    now,          \* the clock
    conf,         \* struct flowd_config: listeners, filter rules
    pfd, num_fds, \* the poll vector
    la,           \* the index i of the dispatch loop
    log_fd,       \* flowd_mainloop's log descriptor, -1 when closed
    log_fds,      \* the descriptors of the log file the process holds open
    logfile,      \* the log file
    last,         \* the last step: its name, input, trace, and the registry
                  \* and log length it started from
    hist          \* what the run has done so far: counts, and
                  \*   woken      a wait has returned
                  \*   stale      the wait of this wake-up returned with a flag set
                  \*   stale_log  the configuration is newer than the open log
                  \*   owed       the requests signalled since the loop last
                  \*              began the action they ask for

vars == <<pc, exit_flag, reconf_flag, reopen_flag, info_flag, peers, now, conf,
          pfd, num_fds, la, log_fd, log_fds, logfile, last, hist>>

NoRx == [kind |-> "none"]

St == [peers |-> peers, logfile |-> logfile, trace |-> <<>>, now |-> now,
       exited |-> FALSE]

Idle ==
    [act |-> "step", rx |-> NoRx, trace |-> <<>>, pre |-> peers,
     loglen |-> Len(logfile), log_fd |-> log_fd]

Step(act, rx, S) ==
    [act |-> act, rx |-> rx, trace |-> S.trace, pre |-> peers,
     loglen |-> Len(logfile), log_fd |-> log_fd]

Init ==
    /\ pc = "init"
    /\ exit_flag = 0 /\ reconf_flag = 0 /\ reopen_flag = 0 /\ info_flag = 0
    /\ peers = [peer_tree |-> {}, peer_list |-> <<>>, heap |-> <<>>,
                max_peers |-> DEFAULT_MAX_PEERS, num_peers |-> 0, num_forced |-> 0]
    /\ now = 0
    /\ conf = StartupConfig
    /\ pfd = <<>> /\ num_fds = 0 /\ la = 0
    /\ log_fd = -1 /\ log_fds = {}
    /\ logfile \in InitLogs
    /\ last = [act |-> "main", rx |-> NoRx, trace |-> <<>>, pre |-> peers,
               loglen |-> Len(logfile), log_fd |-> -1]
    /\ hist = [events |-> 0, dgrams |-> 0, sigusr1 |-> 0, sighup |-> 0,
               reopen_sets |-> 0, closes |-> 0, reverifies |-> 0,
               rewrites |-> 0, woken |-> FALSE, exit_early |-> FALSE,
               seen |-> {}, stale |-> FALSE, stale_log |-> FALSE,
               owed |-> {}]

(***************************************************************************)
(* Signal handlers.  A signal that arrives while the loop is blocked in    *)
(* poll makes poll fail with EINTR, and the loop continues at its head.    *)
(***************************************************************************)
Running == pc \notin {"done", "fatal"}

Interrupted == IF pc = "inpoll" THEN "head" ELSE pc

Delivered(sig) ==
    /\ Running
    /\ hist.events < MaxEvents
    /\ pc' = Interrupted
    /\ last' = Idle
    /\ UNCHANGED <<peers, now, conf, pfd, num_fds, la, log_fd, log_fds, logfile>>

sighand_exit(sig, signo) ==
    /\ Delivered(sig)
    /\ exit_flag' = signo
    /\ hist' = [hist EXCEPT !.events = @ + 1, !.woken = @ \/ pc = "inpoll",
                            !.exit_early = @ \/ (~hist.woken /\
                                                  logfile = <<StoreHeader>>)]
    /\ UNCHANGED <<reconf_flag, reopen_flag, info_flag>>

sighand_reconf ==
    /\ Delivered("SIGHUP")
    /\ reconf_flag' = 1
    /\ reopen_flag' = 1
    /\ hist' = [hist EXCEPT !.events = @ + 1, !.sighup = @ + 1,
                            !.woken = @ \/ pc = "inpoll",
                            !.reopen_sets = @ + (1 - reopen_flag),
                            !.owed = @ \cup {"reconf"}]
    /\ UNCHANGED <<exit_flag, info_flag>>

sighand_reopen ==
    /\ Delivered("SIGUSR1")
    /\ reopen_flag' = 1
    /\ hist' = [hist EXCEPT !.events = @ + 1, !.sigusr1 = @ + 1,
                            !.woken = @ \/ pc = "inpoll",
                            !.reopen_sets = @ + (1 - reopen_flag),
                            !.owed = @ \cup {"reopen"}]
    /\ UNCHANGED <<exit_flag, reconf_flag, info_flag>>

sighand_info ==
    /\ Delivered("SIGUSR2")
    /\ info_flag' = 1
    /\ hist' = [hist EXCEPT !.events = @ + 1, !.woken = @ \/ pc = "inpoll",
                            !.owed = @ \cup {"info"}]
    /\ UNCHANGED <<exit_flag, reconf_flag, reopen_flag>>

(***************************************************************************)
(* flowd_mainloop, one action per stretch between two flag accesses.       *)
(***************************************************************************)
flags == <<exit_flag, reconf_flag, reopen_flag, info_flag>>
registry == <<peers, now>>
logstate == <<log_fd, log_fds, logfile>>
pollstate == <<pfd, num_fds, la>>

\* init_pfd(conf, &pfd, monitor_fd, &num_fds); log_fd = -1;
MainInit ==
    /\ pc = "init"
    /\ pfd' = init_pfd(conf, monitor_fd).pfd
    /\ num_fds' = init_pfd(conf, monitor_fd).num_fds
    /\ log_fd' = -1
    /\ pc' = "head"
    /\ last' = Idle
    /\ UNCHANGED <<flags, registry, conf, la, log_fds, logfile, hist>>

\* for (; exit_flag == 0; )
LoopHead ==
    /\ pc = "head"
    /\ pc' = IF exit_flag = 0 THEN "reopen" ELSE "out"
    /\ last' = Idle
    /\ hist' = [hist EXCEPT !.stale = FALSE]
    /\ UNCHANGED <<flags, registry, conf, pollstate, logstate>>

\* A reopen block that closes the descriptor and keeps its number in log_fd.
ReopenTest_M ==
    /\ pc = "reopen"
    /\ IF reopen_flag # 0 /\ log_fd # -1
       THEN /\ log_fds' = log_fds \ {log_fd}
            /\ log_fd' = log_fd
            /\ hist' = [hist EXCEPT !.closes = @ + 1, !.stale_log = FALSE,
                                    !.owed = @ \ {"reopen"}]
            /\ last' = Step("reopen", NoRx, Emit(logit(St, LOG_INFO), "close", log_fd))
            /\ pc' = "reopen_clr"
       ELSE /\ UNCHANGED <<log_fds, log_fd, hist>>
            /\ last' = Idle
            /\ pc' = "reconf"
    /\ UNCHANGED <<flags, registry, conf, pollstate, logfile>>

\* if (reopen_flag && log_fd != -1) { close(log_fd); log_fd = -1; ...
ReopenTest ==
    /\ pc = "reopen"
    /\ IF reopen_flag # 0 /\ log_fd # -1
       THEN /\ log_fds' = log_fds \ {log_fd}
            /\ log_fd' = -1
            /\ hist' = [hist EXCEPT !.closes = @ + 1, !.stale_log = FALSE,
                                    !.owed = @ \ {"reopen"}]
            /\ last' = Step("reopen", NoRx, Emit(logit(St, LOG_INFO), "close", log_fd))
            /\ pc' = "reopen_clr"
       ELSE /\ UNCHANGED <<log_fds, log_fd, hist>>
            /\ last' = Idle
            /\ pc' = "reconf"
    /\ UNCHANGED <<flags, registry, conf, pollstate, logfile>>

\* A reopen block that leaves the flag set.
ReopenClear_M ==
    /\ pc = "reopen_clr"
    /\ pc' = "reconf"
    /\ last' = Idle
    /\ UNCHANGED <<flags, registry, conf, pollstate, logstate, hist>>

\* ... reopen_flag = 0; }
ReopenClear ==
    /\ pc = "reopen_clr"
    /\ reopen_flag' = 0
    /\ pc' = "reconf"
    /\ last' = Idle
    /\ UNCHANGED <<exit_flag, reconf_flag, info_flag, registry, conf, pollstate,
                   logstate, hist>>

\* if (reconf_flag) { if (client_reconfigure(...) == -1) logerrx(...);
\*                    init_pfd(...); ...
ReconfTest ==
    /\ pc = "reconf"
    /\ IF reconf_flag # 0
       THEN \/ /\ pc' = "fatal"
               /\ last' = Step("reconf", NoRx,
                               logerrx(Emit(logit(St, LOG_INFO), "client_reconfigure", -1)))
               /\ UNCHANGED <<conf, pfd, num_fds, hist>>
            \/ \E cf \in Configs :
               /\ conf' = cf
               /\ pfd' = init_pfd(cf, monitor_fd).pfd
               /\ num_fds' = init_pfd(cf, monitor_fd).num_fds
               /\ pc' = "reconf_clr"
               /\ hist' = [hist EXCEPT !.stale_log = (log_fd # -1),
                                       !.owed = @ \ {"reconf"}]
               /\ last' = Step("reconf", NoRx,
                               Emit(Emit(logit(St, LOG_INFO), "client_reconfigure", 0),
                                    "init_pfd", num_fds'))
       ELSE /\ pc' = "startlog"
            /\ last' = Idle
            /\ UNCHANGED <<conf, pfd, num_fds, hist>>
    /\ UNCHANGED <<flags, registry, la, logstate>>

\* ... reconf_flag = 0; }
ReconfClear ==
    /\ pc = "reconf_clr"
    /\ reconf_flag' = 0
    /\ pc' = "startlog"
    /\ last' = Idle
    /\ UNCHANGED <<exit_flag, reopen_flag, info_flag, registry, conf, pollstate,
                   logstate, hist>>

CountOps(trace, op) == Cardinality({k \in 1..Len(trace) : trace[k].op = op})

\* if (log_fd == -1) log_fd = start_log(monitor_fd);
StartLog ==
    /\ pc = "startlog"
    /\ IF log_fd = -1
       THEN \E r \in {start_log(St, {monitor_fd} \cup SeqRange(conf.listen_addrs)
                                           \cup log_fds)} :
                /\ log_fd' = r.fd
                /\ log_fds' = log_fds \cup {r.fd}
                /\ logfile' = r.st.logfile
                /\ pc' = IF r.st.exited THEN "fatal" ELSE "info"
                /\ last' = Step("startlog", NoRx, r.st)
                /\ hist' = [hist EXCEPT
                      !.reverifies = IF hist.closes = 0 THEN @
                          ELSE @ + CountOps(r.st.trace, "store_check_header"),
                      !.rewrites = IF hist.closes = 0 THEN @
                          ELSE @ + CountOps(r.st.trace, "store_put_header"),
                      !.owed = @ \ {"reopen"}]
       ELSE /\ pc' = "info"
            /\ last' = Idle
            /\ UNCHANGED <<logstate, hist>>
    /\ UNCHANGED <<flags, registry, conf, pollstate>>

\* if (info_flag) { info_flag = 0; ...format_rule...; dump_peers(peers); }
InfoStep ==
    /\ pc = "info"
    /\ IF info_flag # 0
       THEN /\ info_flag' = 0
            /\ last' = Step("info", NoRx,
                    dump_peers(format_rules(St, Cardinality(conf.filter_list))))
            /\ hist' = [hist EXCEPT !.owed = @ \ {"info"}]
       ELSE /\ UNCHANGED <<info_flag, hist>>
            /\ last' = Idle
    /\ pc' = "prepoll"
    /\ UNCHANGED <<exit_flag, reconf_flag, reopen_flag, registry, conf, pollstate,
                   logstate>>

\* The call of poll(pfd, num_fds, INFTIM): the loop blocks.
EnterPoll ==
    /\ pc = "prepoll"
    /\ pc' = "inpoll"
    /\ last' = Idle
    /\ UNCHANGED <<flags, registry, conf, pollstate, logstate, hist>>

MonitorEvents == {{}, {"POLLIN"}, {"POLLHUP"}}

\* A wake-up that serves the listeners whatever the control channel reports.
PollReady_M ==
    /\ pc = "inpoll"
    /\ \E m \in MonitorEvents, R \in SUBSET (1..(num_fds - 1)) :
        /\ m # {} \/ R # {}
        /\ LET polled == [k \in DOMAIN pfd |->
                            [pfd[k] EXCEPT !.revents =
                               IF k = 0 THEN m
                               ELSE IF k \in R THEN {"POLLIN"} ELSE {}]]
           IN  pc' = "dispatch" /\ la' = 1 /\ pfd' = polled
        /\ last' = Step("polled", [kind |-> "revents", monitor |-> m, readable |-> R], St)
    /\ hist' = [hist EXCEPT !.woken = TRUE,
                            !.stale = (pc' = "dispatch" /\
                                       \E f \in {exit_flag, reconf_flag,
                                                 reopen_flag, info_flag} : f # 0)]
    /\ UNCHANGED <<flags, registry, conf, num_fds, logstate>>

\* poll returns > 0: the kernel has filled in revents.  Then
\* if (pfd[0].revents != 0) break;  else the dispatch loop starts at i = 1.
\* After the break nothing reads the vector again: it is left as it was, and
\* what poll reported is kept in `last`.
PollReady ==
    /\ pc = "inpoll"
    /\ \E m \in MonitorEvents, R \in SUBSET (1..(num_fds - 1)) :
        /\ m # {} \/ R # {}
        /\ LET polled == [k \in DOMAIN pfd |->
                            [pfd[k] EXCEPT !.revents =
                               IF k = 0 THEN m
                               ELSE IF k \in R THEN {"POLLIN"} ELSE {}]]
           IN  IF polled[0].revents # {}
               THEN pc' = "out" /\ la' = la /\ pfd' = pfd
               ELSE pc' = "dispatch" /\ la' = 1 /\ pfd' = polled
        /\ last' = Step("polled", [kind |-> "revents", monitor |-> m, readable |-> R], St)
    /\ hist' = [hist EXCEPT !.woken = TRUE,
                            !.stale = (pc' = "dispatch" /\
                                       \E f \in {exit_flag, reconf_flag,
                                                 reopen_flag, info_flag} : f # 0)]
    /\ UNCHANGED <<flags, registry, conf, num_fds, logstate>>

\* poll returns 0: continue.
PollZero ==
    /\ pc = "inpoll"
    /\ pc' = "head"
    /\ last' = Step("pollzero", NoRx, St)
    /\ hist' = [hist EXCEPT !.woken = TRUE]
    /\ UNCHANGED <<flags, registry, conf, pollstate, logstate>>

\* poll returns -1: if (i == 0 || errno == EINTR) continue; logerr(...)
poll_failed(errno) == IF errno = "EINTR" THEN "head" ELSE "fatal"

PollFail ==
    /\ pc = "inpoll"
    /\ \E errno \in {"EINTR", "EAGAIN", "EBADF"} :
        /\ pc' = poll_failed(errno)
        /\ last' = Step("pollfail", [kind |-> errno],
                        IF poll_failed(errno) = "fatal" THEN logerrx(St) ELSE St)
    /\ hist' = [hist EXCEPT !.woken = TRUE]
    /\ UNCHANGED <<flags, registry, conf, pollstate, logstate>>

\* The end of one iteration of TAILQ_FOREACH(la, ...): i++, and after the
\* last listener back to the loop head (revents are dead until the next
\* poll rewrites them).
NextListener ==
    IF la + 1 > Len(conf.listen_addrs)
    THEN /\ la' = 0
         /\ pfd' = [k \in DOMAIN pfd |-> [pfd[k] EXCEPT !.revents = {}]]
         /\ pc' = "head"
    ELSE /\ la' = la + 1
         /\ pfd' = pfd
         /\ pc' = "dispatch"

\* if ((pfd[i].revents & POLLIN) != 0) process_input(conf, peers, pfd[i].fd, log_fd);
\* S is the state process_input leaves.
DispatchInput ==
    /\ pc = "dispatch"
    /\ "POLLIN" \in pfd[la].revents
    /\ \E rx \in Receptions :
        /\ rx.kind = "dgram" => hist.events < MaxEvents
        /\ \E S \in {process_input(St, rx, conf, log_fd)} :
               /\ peers' = S.peers
               /\ now' = S.now
               /\ logfile' = S.logfile
               /\ last' = Step("process_input", rx, S)
               /\ hist' = IF rx.kind = "dgram"
                          THEN [hist EXCEPT !.events = @ + 1, !.dgrams = @ + 1,
                                            !.seen = @ \cup {rx.pkt.from}]
                          ELSE hist
               /\ IF S.exited
                  THEN pc' = "fatal" /\ la' = la /\ pfd' = pfd
                  ELSE NextListener
    /\ UNCHANGED <<flags, conf, num_fds, log_fd, log_fds>>

DispatchSkip ==
    /\ pc = "dispatch"
    /\ "POLLIN" \notin pfd[la].revents
    /\ NextListener
    /\ last' = Idle
    /\ UNCHANGED <<flags, registry, conf, num_fds, logstate, hist>>

\* After the loop: if (exit_flag != 0) logit(LOG_NOTICE, "Exiting on signal %d");
\* main returns 0.
LoopExit ==
    /\ pc = "out"
    /\ pc' = "done"
    /\ last' = Step("exit", NoRx,
                    IF exit_flag # 0 THEN Emit(St, "exiting_on_signal", exit_flag)
                    ELSE St)
    /\ UNCHANGED <<flags, registry, conf, pollstate, logstate, hist>>

Next ==
    \/ MainInit
    \/ LoopHead
    \/ ReopenTest
    \/ ReopenClear
    \/ ReconfTest
    \/ ReconfClear
    \/ StartLog
    \/ InfoStep
    \/ EnterPoll
    \/ PollReady
    \/ PollZero
    \/ PollFail
    \/ DispatchInput
    \/ DispatchSkip
    \/ LoopExit
    \/ sighand_exit("SIGINT", SIGINT)
    \/ sighand_exit("SIGTERM", SIGTERM)
    \/ sighand_reconf
    \/ sighand_reopen
    \/ sighand_info

Spec == Init /\ [][Next]_vars

(***************************************************************************)
(* process_flow on its own.  The decoders only build flows whose source    *)
(* and destination are both AF_INET; here the worker runs as above, without *)
(* signals (so with the one listener of the startup configuration), and   *)
(* process_flow is also handed flows of any two families while the         *)
(* listener is being served.                                               *)
(***************************************************************************)
Families == {AF_INET, AF_INET6}

Flows ==
    { [agent_addr |-> Xaddr(1), src_af |-> s, dst_af |-> d, protocol |-> pr,
       netflow_version |-> 5, offset |-> NF5_HEADER_SIZE] :
      s \in Families, d \in Families, pr \in {IPPROTO_TCP, IPPROTO_UDP} }

SubmitFlow ==
    /\ pc = "dispatch"
    /\ "POLLIN" \in pfd[la].revents
    /\ hist.events < MaxEvents
    /\ \E flow \in Flows :
        \E S \in {process_flow(St, flow, conf, log_fd)} :
            /\ logfile' = S.logfile
            /\ last' = Step("process_flow", [kind |-> "flow", flow |-> flow], S)
            /\ pc' = IF S.exited THEN "fatal" ELSE pc
    /\ hist' = [hist EXCEPT !.events = @ + 1]
    /\ UNCHANGED <<flags, registry, conf, pollstate, log_fd, log_fds>>

NextFlow ==
    \/ MainInit
    \/ LoopHead
    \/ ReopenTest
    \/ ReconfTest
    \/ StartLog
    \/ InfoStep
    \/ EnterPoll
    \/ PollReady
    \/ PollZero
    \/ PollFail
    \/ DispatchInput
    \/ LoopExit
    \/ SubmitFlow

SpecFlow == Init /\ [][NextFlow]_vars

(***************************************************************************)
(* Properties.  `last` describes the step that led to the current state:   *)
(* the registry and the log length it started from, its input, and the     *)
(* calls it made.                                                          *)
(***************************************************************************)
Node(reg, addr) == SPLAY_FIND(reg.peer_tree, reg.heap, addr)
Known(reg, addr) == Node(reg, addr) # NULL

\* The record of the exporter in a registry; all zero when it has none.
Rec(reg, addr) ==
    IF Known(reg, addr) THEN reg.heap[Node(reg, addr)]
    ELSE [ZeroPeer EXCEPT !.from = addr]

\* The exporters of a registry from the LRU head to the tail.
LruAddrs(reg) == [k \in 1..Len(reg.peer_list) |-> reg.heap[reg.peer_list[k]].from]
RegAddrs(reg) == {reg.heap[n].from : n \in reg.peer_tree}

Ops(trace, op) == SelectSeq(trace, LAMBDA e : e.op = op)

\* The last step was process_input on a datagram.
InputStep == last.act = "process_input" /\ last.rx.kind = "dgram"
Before(p) == Rec(last.pre, p.from)
After(p) == Rec(peers, p.from)
Appended == SubSeq(logfile, last.loglen + 1, Len(logfile))

\* The structural checks of a datagram, as the format defines them.
Decoded(p) == p.version \in {1, 5, 7}
TooShort(p) == p.len < NF_HEADER_COMMON_SIZE \/ p.len < HdrSize(p.version)
BadCount(p) == p.flows = 0 \/ p.flows > MaxFlows(p.version)
BadLength(p) == p.len # PacketSize(p.version, p.flows)
StructFail(p) == Decoded(p) /\ (TooShort(p) \/ BadCount(p) \/ BadLength(p))
Valid(p) == Decoded(p) /\ ~TooShort(p) /\ ~BadCount(p) /\ ~BadLength(p)
Unsupported(p) == p.len >= NF_HEADER_COMMON_SIZE /\ ~Decoded(p)

\* The node new_peer evicted in the last step, if it evicted one.
Evictions == Ops(last.trace, "TAILQ_LAST")
Victim == Evictions[1].arg

\* When a peer was last inserted or touched.
Recency(peer) ==
    IF peer.lastvalid > peer.firstseen THEN peer.lastvalid ELSE peer.firstseen

IsHeader(item) == "magic" \in DOMAIN item

\* C1: the registry never holds more than max_peers peers, and once more
\* than max_peers distinct exporters have sent a datagram it holds exactly
\* max_peers.
C1_RegistryBound ==
    /\ peers.num_peers <= peers.max_peers
    /\ Cardinality(hist.seen) > peers.max_peers =>
            peers.num_peers = peers.max_peers

C1_Witness ==
    /\ InputStep
    /\ Cardinality(hist.seen) > peers.max_peers
    /\ peers.num_forced >= 1
    /\ peers.num_peers = peers.max_peers

C3_StructuralRejection ==
    InputStep =>
        LET p == last.rx.pkt
            pre == last.pre
        IN  /\ StructFail(p) =>
                /\ Known(peers, p.from)
                /\ After(p).ninvalid = Before(p).ninvalid + 1
                /\ Ops(last.trace, "process_flow") = <<>>
                /\ Ops(last.trace, "update_peer") = <<>>
                /\ Appended = <<>>
                /\ After(p).npackets = Before(p).npackets
                /\ After(p).nflows = Before(p).nflows
                /\ After(p).lastvalid = Before(p).lastvalid
                /\ After(p).last_version = Before(p).last_version
                /\ \A a \in RegAddrs(peers) \ {p.from} : Rec(peers, a) = Rec(pre, a)
                /\ IF Known(pre, p.from)
                   THEN LruAddrs(peers) = LruAddrs(pre)
                   ELSE Tail(LruAddrs(peers)) =
                            SubSeq(LruAddrs(pre), 1, Len(LruAddrs(peers)) - 1)
            /\ (Decoded(p) /\ p.flows = MaxFlows(p.version)
                    /\ p.len = PacketSize(p.version, p.flows)) =>
                /\ Len(Ops(last.trace, "update_peer")) = 1
                /\ Len(Ops(last.trace, "process_flow")) = MaxFlows(p.version)
                /\ After(p).ninvalid = Before(p).ninvalid
                /\ After(p).npackets = Before(p).npackets + 1

\* A rejected datagram from a peer that has sent valid packets before and
\* is not at the LRU head.
C3_Witness ==
    /\ InputStep
    /\ StructFail(last.rx.pkt)
    /\ Known(last.pre, last.rx.pkt.from)
    /\ Before(last.rx.pkt).npackets >= 1
    /\ LruAddrs(last.pre)[1] # last.rx.pkt.from

\* C4: a valid datagram of n flows touches its peer once, before any
\* record, then submits record 0, 1, ..., n-1 to process_flow in that order
\* and nothing else; the records it appends to the log are a subsequence of
\* that order.
C4_ValidDatagram ==
    (InputStep /\ Valid(last.rx.pkt)) =>
        \E p \in {last.rx.pkt} :
        \E calls \in {SelectSeq(last.trace,
                     LAMBDA e : e.op \in {"update_peer", "process_flow"})} :
        \E appended \in {Appended} :
            /\ Len(calls) = p.flows + 1
            /\ calls[1] = Ev("update_peer", p.flows)
            /\ \A i \in 0..(p.flows - 1) :
                    calls[i + 2] = Ev("process_flow", PacketSize(p.version, i))
            /\ After(p).npackets = Before(p).npackets + 1
            /\ After(p).nflows = Before(p).nflows + p.flows
            /\ After(p).last_version = p.version
            /\ After(p).lastvalid = now
            /\ \A k \in 1..Len(appended) :
                /\ ~IsHeader(appended[k])
                /\ appended[k].agent_addr = p.from
                /\ appended[k].netflow_version = p.version
                /\ \E i \in 0..(p.flows - 1) :
                        appended[k].offset = PacketSize(p.version, i)
                /\ k > 1 => appended[k - 1].offset < appended[k].offset

\* A valid datagram of which the filter let some records through and
\* discarded others.
C4_Witness ==
    /\ InputStep
    /\ Valid(last.rx.pkt)
    /\ Len(Appended) > 0
    /\ Len(Appended) < last.rx.pkt.flows

\* C5: a datagram of an unsupported version writes nothing and leaves its
\* peer's ninvalid, npackets and nflows alone, yet its sender has a peer
\* afterwards: made at the LRU head when it had none, at the cost of the LRU
\* tail when the registry was full.
C5_UnsupportedVersion ==
    (InputStep /\ Unsupported(last.rx.pkt)) =>
        LET p == last.rx.pkt
            pre == last.pre
        IN  /\ logfile = SubSeq(logfile, 1, last.loglen)
            /\ Ops(last.trace, "store_put_flow") = <<>>
            /\ After(p).ninvalid = Before(p).ninvalid
            /\ After(p).npackets = Before(p).npackets
            /\ After(p).nflows = Before(p).nflows
            /\ Known(peers, p.from)
            /\ ~Known(pre, p.from) =>
                /\ LruAddrs(peers)[1] = p.from
                /\ pre.num_peers = pre.max_peers =>
                    /\ LruAddrs(pre)[Len(LruAddrs(pre))] \notin RegAddrs(peers)
                    /\ peers.num_forced = pre.num_forced + 1
                /\ pre.num_peers < pre.max_peers =>
                    /\ RegAddrs(peers) = RegAddrs(pre) \cup {p.from}
                    /\ peers.num_forced = pre.num_forced

\* A datagram of an unsupported version from a new exporter evicts a peer
\* of the full registry.
C5_Witness ==
    /\ InputStep
    /\ Unsupported(last.rx.pkt)
    /\ ~Known(last.pre, last.rx.pkt.from)
    /\ last.pre.num_peers = last.pre.max_peers
    /\ LruAddrs(peers)[1] = last.rx.pkt.from

\* The loop goes on after the last step.
LoopContinues == pc \in {"dispatch", "head"}

\* C6 (amended): a datagram that is short, has a bad flow count or an
\* inconsistent length adds one to peer.ninvalid and is logged at WARNING; a
\* datagram of an unsupported version leaves peer.ninvalid as it was and is
\* logged at INFO; each of the four is dropped without submitting a flow and
\* the loop continues.
C6_MalformedPolicy ==
    (InputStep /\ (StructFail(last.rx.pkt) \/ Unsupported(last.rx.pkt))) =>
        LET p == last.rx.pkt
            lines == Ops(last.trace, "logit")
        IN  /\ After(p).ninvalid =
                    Before(p).ninvalid + (IF StructFail(p) THEN 1 ELSE 0)
            /\ lines # <<>>
            /\ lines[Len(lines)].arg =
                    (IF StructFail(p) THEN LOG_WARNING ELSE LOG_INFO)
            /\ last.trace[Len(last.trace)].op = "logit"
            /\ Ops(last.trace, "process_flow") = <<>>
            /\ Ops(last.trace, "store_put_flow") = <<>>
            /\ LoopContinues

\* A datagram of an unsupported version from a peer already counted invalid
\* once: the count stays.
C6_Witness ==
    /\ InputStep
    /\ Unsupported(last.rx.pkt)
    /\ Before(last.rx.pkt).ninvalid >= 1
    /\ After(last.rx.pkt).ninvalid = Before(last.rx.pkt).ninvalid

\* C6 as stated: each of the four kinds, the unsupported version included,
\* adds one to peer.ninvalid.
C6_Original ==
    (InputStep /\ (StructFail(last.rx.pkt) \/ Unsupported(last.rx.pkt))) =>
        /\ After(last.rx.pkt).ninvalid = Before(last.rx.pkt).ninvalid + 1
        /\ Ops(last.trace, "process_flow") = <<>>
        /\ LoopContinues

\* The last step handed process_flow a flow of two different families.
MixedStep ==
    /\ last.act = "process_flow"
    /\ last.rx.flow.src_af # last.rx.flow.dst_af

\* C7: a flow whose source and destination families differ is dropped by
\* process_flow before the filter is evaluated: nothing is appended, one
\* warning is logged, the registry keeps what the packet's touch put there,
\* and the worker goes on.
C7_MixedFamilyDrop ==
    MixedStep =>
        /\ Appended = <<>>
        /\ logfile = SubSeq(logfile, 1, last.loglen)
        /\ last.trace = << Ev("process_flow", last.rx.flow.offset),
                           Ev("logit", LOG_WARNING) >>
        /\ peers = last.pre
        /\ pc = "dispatch"

\* A mixed-family flow submitted after a valid packet has been counted and
\* logged.
C7_Witness ==
    /\ MixedStep
    /\ \E n \in peers.peer_tree : peers.heap[n].npackets >= 1
    /\ Len(logfile) > 1

\* C8: a log file that started empty or with a valid header is, once
\* start_log has run, one header followed by flow records only; start_log
\* writes the header exactly when the file is empty.
C8_SingleHeader ==
    /\ (logfile # <<>> /\ logfile[1] # BadHeader) =>
            /\ logfile[1] = StoreHeader
            /\ \A k \in 2..Len(logfile) : ~IsHeader(logfile[k])
    /\ log_fd # -1 => logfile # <<>>
    /\ last.act = "startlog" =>
            /\ Len(Ops(last.trace, "store_put_header")) =
                    (IF last.loglen = 0 THEN 1 ELSE 0)
            /\ Len(logfile) = last.loglen + (IF last.loglen = 0 THEN 1 ELSE 0)

\* Flows were appended before a reopen and after it, under one header.
C8_Witness ==
    /\ hist.closes >= 1
    /\ hist.reverifies >= 1
    /\ InputStep
    /\ last.loglen > 1
    /\ Len(logfile) > last.loglen
    /\ logfile[1] = StoreHeader

\* C9 (amended): reopen requests are served once per raising of the flag:
\* the log is closed at most once for each time a signal raised the flag
\* from 0, each close is followed by at most one header verification, and a
\* reopen never writes a header.  Two USR1 delivered while the flag is still
\* up give one verification; two delivered either side of the loop's reopen
\* block give two.
C9_ReopenCoalesced ==
    /\ hist.closes <= hist.reopen_sets
    /\ hist.reverifies <= hist.closes
    /\ hist.rewrites = 0
    /\ (pc = "inpoll" /\ hist.closes >= 1) => hist.reverifies = hist.closes
    /\ (hist.sigusr1 = 2 /\ hist.sighup = 0) => hist.reverifies <= 2

\* Two USR1, the second delivered while the flag was still set: one
\* verification.
C9_Witness ==
    /\ hist.sigusr1 = 2
    /\ hist.sighup = 0
    /\ hist.reopen_sets = 1
    /\ hist.reverifies = 1
    /\ pc = "inpoll"

\* C9 as stated: two USR1, wherever they are delivered, give one header
\* verification.
C9_Original ==
    (hist.sigusr1 = 2 /\ hist.sighup = 0) =>
        /\ hist.reverifies <= 1
        /\ hist.rewrites = 0

\* C10: with exactly a valid header in the log file and the exit flag set
\* before the first wait has returned, the worker appends nothing to the log.
C10_StartThenStop ==
    hist.exit_early => logfile = <<StoreHeader>>

C12_HelperExit ==
    /\ [](/\ (last.act = "polled" /\ last.rx.monitor # {})
             => /\ pc = "out"
                /\ peers = last.pre
                /\ Len(logfile) = last.loglen
                /\ last.trace = <<>>
          /\ pc = "done" => last.act = "exit")
    /\ [][/\ pc = "out" => /\ pc' \in {"out", "done"}
                           /\ peers' = peers
                           /\ logfile' = logfile
                           /\ hist'.dgrams = hist.dgrams
          /\ pc # "done"]_<<pc, peers, logfile, hist>>

\* The control channel and a listen socket are ready in the same wake-up.
C12_Witness ==
    /\ last.act = "polled"
    /\ last.rx.monitor # {}
    /\ last.rx.readable # {}
    /\ pc = "out"
    /\ exit_flag = 0

\* C13: no datagram is processed in a wake-up whose wait returned with a
\* control flag (exit, reopen, reconf, info) already set and not yet acted on.
C13_FlagObservation ==
    InputStep => ~hist.stale

\* C14: once the exit flag is set the loop terminates without needing a
\* further datagram or signal, so it never blocks in the indefinite wait with
\* the flag set; and the signal number logged on exit is the one last set.
C14_ExitFlag ==
    /\ ~(pc = "inpoll" /\ exit_flag # 0)
    /\ (last.act = "exit" /\ exit_flag # 0)
       => last.trace = <<Ev("exiting_on_signal", exit_flag)>>

\* C15: no datagram is processed under a new configuration while the log
\* descriptor of the previous one is still open; a failed reconfiguration is
\* fatal and a successful one rebuilds the descriptor vector.
C15_ReconfImpliesReopen ==
    /\ InputStep => ~hist.stale_log
    /\ (last.act = "reconf" /\ Ops(last.trace, "client_reconfigure")[1].arg = -1)
       => pc = "fatal"
    /\ (last.act = "reconf" /\ Ops(last.trace, "client_reconfigure")[1].arg = 0)
       => /\ pc = "reconf_clr"
          /\ Ops(last.trace, "init_pfd") # <<>>
          /\ pfd = init_pfd(conf, monitor_fd).pfd
          /\ num_fds = init_pfd(conf, monitor_fd).num_fds

\* C16: when the wait fails with EINTR or with EAGAIN, or returns zero, the
\* loop continues with no exit and no datagram processed; any other failure
\* of the wait terminates the worker fatally.
C16_WaitErrors ==
    /\ (\/ last.act = "pollzero"
        \/ last.act = "pollfail" /\ last.rx.kind \in {"EINTR", "EAGAIN"})
       => /\ pc = "head"
          /\ peers = last.pre
          /\ Len(logfile) = last.loglen
    /\ (last.act = "pollfail" /\ last.rx.kind \notin {"EINTR", "EAGAIN"})
       => pc = "fatal"

\* The lines of the last step that come after the filter rules.
PeerLines == SelectSeq(last.trace, LAMBDA e : e.op # "format_rule")

\* C17: when the info flag is handled with k peers registered the log sink
\* receives one line per filter rule, then one aggregate line, then for each
\* peer in ascending address order its three lines (counts, first seen, last
\* valid); the flag is cleared and the registry and its LRU order are
\* unchanged.
C17_InfoDump ==
    last.act = "info" =>
        LET k == peers.num_peers
            rules == Cardinality(conf.filter_list)
            node(i) == PeerLines[3 * i - 1].arg
        IN  /\ Len(last.trace) = rules + 1 + 3 * k
            /\ \A i \in 1..rules : last.trace[i].op = "format_rule"
            /\ Len(PeerLines) = 1 + 3 * k
            /\ PeerLines[1] = Ev("peer_state", k)
            /\ \A i \in 1..k :
                /\ node(i) \in peers.peer_tree
                /\ PeerLines[3 * i - 1] = Ev("peer_counts", node(i))
                /\ PeerLines[3 * i] = Ev("peer_firstseen", node(i))
                /\ PeerLines[3 * i + 1] = Ev("peer_lastvalid", node(i))
            /\ \A i \in 1..(k - 1) :
                addr_cmp(peers.heap[node(i)].from, peers.heap[node(i + 1)].from) < 0
            /\ info_flag = 0
            /\ peers = last.pre
            /\ Len(logfile) = last.loglen

\* A dump of two peers whose address order is the reverse of their order of
\* arrival, under a configuration with a filter rule.
C17_Witness ==
    /\ last.act = "info"
    /\ peers.num_peers = 2
    /\ conf.filter_list # {}
    /\ addr_cmp(LruAddrs(peers)[1], LruAddrs(peers)[2]) < 0
    /\ Len(last.trace) = Cardinality(conf.filter_list) + 7

\* C17 as stated: the dump is one line per peer plus one aggregate line.
C17_Original ==
    last.act = "info" =>
        /\ Len(PeerLines) = peers.num_peers + 1
        /\ info_flag = 0
        /\ peers = last.pre

\* C18: in every state between operations each exporter address appears at
\* most once in the registry, the peers of the lookup tree are exactly the
\* peers of the LRU list (each once), and every peer with npackets > 0 has
\* firstseen <= lastvalid.
C18_RegistryStructure ==
    /\ \A n, m \in peers.peer_tree :
        n # m => addr_cmp(peers.heap[n].from, peers.heap[m].from) # 0
    /\ SeqRange(peers.peer_list) = peers.peer_tree
    /\ Len(peers.peer_list) = Cardinality(peers.peer_tree)
    /\ peers.num_peers = Cardinality(peers.peer_tree)
    /\ DOMAIN peers.heap = peers.peer_tree
    /\ \A n \in peers.peer_tree :
        peers.heap[n].npackets > 0 => peers.heap[n].firstseen <= peers.heap[n].lastvalid

\* After an eviction: a full registry holding a peer with valid packets and
\* one without.
C18_Witness ==
    /\ peers.num_forced >= 1
    /\ peers.num_peers = peers.max_peers
    /\ \E n, m \in peers.peer_tree :
        /\ peers.heap[n].npackets > 0
        /\ peers.heap[m].npackets = 0

\* The records of a registry other than the one of the exporter addr.
Others(reg, addr) ==
    {reg.heap[n] : n \in {m \in reg.peer_tree : reg.heap[m].from # addr}}

C20_DescriptorVector ==
    /\ [](pc \in {"prepoll", "inpoll", "dispatch"} =>
            /\ num_fds = 1 + Len(conf.listen_addrs)
            /\ DOMAIN pfd = 0..(num_fds - 1)
            /\ pfd[0].fd = monitor_fd
            /\ \A k \in 1..Len(conf.listen_addrs) : pfd[k].fd = conf.listen_addrs[k]
            /\ pc = "dispatch" => la \in 1..Len(conf.listen_addrs)
            /\ pc # "dispatch" => \A k \in DOMAIN pfd : pfd[k].revents = {})
    /\ [][/\ (pc = "dispatch" /\ pc' = "dispatch") =>
                /\ la' \in {la, la + 1}
                /\ conf' = conf
                /\ pfd' = pfd
                /\ la' = la => hist'.dgrams = hist.dgrams
          /\ (pc = "dispatch" /\ pc' = "head") => la = Len(conf.listen_addrs)
          /\ hist'.dgrams # hist.dgrams =>
                /\ pc = "dispatch"
                /\ "POLLIN" \in pfd[la].revents
                /\ hist'.dgrams = hist.dgrams + 1
                /\ pc' = "dispatch" => la' = la + 1]_vars

\* After a reconfiguration to two listeners, both readable in one wake-up:
\* the first has given its datagram and the second is next.
C20_Witness ==
    /\ pc = "dispatch"
    /\ la = 2
    /\ InputStep
    /\ Len(conf.listen_addrs) = 2
    /\ conf # StartupConfig
    /\ \A k \in 1..2 : "POLLIN" \in pfd[k].revents

\* C21: whenever process_input is called log_fd names the one open log
\* descriptor, and start_log has written or verified the header since the
\* last close; log_fd is -1 only before the first start_log and between a
\* close and the start_log of the same iteration; at most one log descriptor
\* is open at any time.
C21_LogDescriptor ==
    /\ log_fds = IF log_fd = -1 THEN {} ELSE {log_fd}
    /\ (log_fd = -1 /\ hist.closes = 0)
       => /\ pc \in {"init", "head", "reopen", "reconf", "reconf_clr",
                     "startlog", "out", "done", "fatal"}
          /\ ~hist.woken
    /\ (log_fd = -1 /\ hist.closes > 0)
       => /\ pc \in {"reopen_clr", "reconf", "reconf_clr", "startlog", "fatal"}
          /\ pc = "fatal" => last.act = "reconf"
    /\ (log_fd # -1 /\ pc # "fatal")
       => /\ logfile # <<>>
          /\ store_check_header(logfile) = 0
          /\ hist.reverifies + hist.rewrites = hist.closes
    /\ last.act = "startlog"
       => /\ last.log_fd = -1
          /\ Ops(last.trace, "client_open_log") = <<Ev("client_open_log", log_fd)>>
          /\ Len(Ops(last.trace, "store_put_header"))
                + Len(Ops(last.trace, "store_check_header")) = 1
    /\ last.act = "process_input"
       => /\ last.log_fd # -1
          /\ log_fd = last.log_fd
          /\ store_check_header(SubSeq(logfile, 1, last.loglen)) = 0

\* A datagram stored through the descriptor of a log that was closed and
\* started again.
C21_Witness ==
    /\ InputStep
    /\ hist.closes >= 1
    /\ hist.reverifies = hist.closes
    /\ log_fd # -1
    /\ log_fds = {log_fd}
    /\ Len(logfile) > last.loglen

\* C22: no control request is lost: while the worker runs, a reconf, reopen
\* or info request signalled since the loop last began the corresponding
\* action is still recorded in its flag (for a reopen, or the log is closed
\* and start_log is about to open it anew).
C22_NoLostRequest ==
    Running =>
        /\ "reconf" \in hist.owed => reconf_flag # 0
        /\ "reopen" \in hist.owed => (reopen_flag # 0 \/ log_fd = -1)
        /\ "info" \in hist.owed => info_flag # 0

\* C23: in every state between operations num_peers is the number of peers
\* in the tree and in the LRU list; num_forced never decreases and grows by
\* exactly the number of peers a step removes, so it is the total number of
\* forced evictions; a step inserts at most one peer and evicts at most one,
\* the victim is a registered peer other than the one being inserted, and an
\* eviction is only attempted on a non-empty LRU list.
C23_CountersAgree ==
    /\ [](/\ peers.num_peers = Cardinality(peers.peer_tree)
          /\ peers.num_peers = Len(peers.peer_list)
          /\ peers.num_peers <= peers.max_peers
          /\ peers.max_peers = DEFAULT_MAX_PEERS
          /\ Evictions # <<>> =>
                /\ InputStep
                /\ Len(Evictions) = 1
                /\ last.pre.peer_list # <<>>
                /\ Victim \in last.pre.peer_tree
                /\ last.pre.heap[Victim].from # last.rx.pkt.from
                /\ last.pre.heap[Victim].from \notin RegAddrs(peers)
                /\ ~Known(last.pre, last.rx.pkt.from)
                /\ Ops(last.trace, "SIGSEGV") = <<>>)
    /\ [][\E gone \in {RegAddrs(peers) \ RegAddrs(peers')} :
          \E come \in {RegAddrs(peers') \ RegAddrs(peers)} :
            /\ peers'.num_forced = peers.num_forced + Cardinality(gone)
            /\ Cardinality(gone) <= 1
            /\ Cardinality(come) <= 1
            /\ gone # {} => (come # {} /\ peers.peer_list # <<>>)]_peers

\* The first forced eviction: a full registry has taken a new exporter in and
\* lost another.
C23_Witness ==
    /\ InputStep
    /\ Evictions # <<>>
    /\ peers.num_forced = 1
    /\ peers.num_peers = peers.max_peers
    /\ last.pre.num_peers = peers.max_peers
    /\ RegAddrs(peers) # RegAddrs(last.pre)
====
